---- MODULE Spec2Model ----
(***************************************************************************)
(* Model of embedded-graphics/src/pixelcolor/conversion.rs: the channel    *)
(* rescaler convert_channel, the RGB <-> RGB conversion graph generated by *)
(* impl_rgb_conversion!, and the Gray8 / BinaryColor conversions generated *)
(* by impl_grayscale_conversions!.                                         *)
(*                                                                         *)
(* The functions are pure.  The state machine takes one input value, then  *)
(* applies up to two conversions in sequence (src -> mid -> out), the way  *)
(* the test convert_rgb565_to_rgb888_and_back does (c -> c2 -> c3).        *)
(***************************************************************************)
EXTENDS Integers, Sequences, FiniteSets

VARIABLES pc, src, mid, out, op1, op2

vars == <<pc, src, mid, out, op1, op2>>

----------------------------------------------------------------------------
(* Integer widths *)

U8(x) == x % 256

U16(x) == x % 65536

Abs(x) == IF x < 0 THEN -x ELSE x

----------------------------------------------------------------------------
(* Sampling bound: RGB input colours take their channels from a grid of    *)
(* every SampleStride-th 5-bit level (scaled to the channel's depth) plus  *)
(* the channel maximum.  Single channels, Gray8 and BinaryColor inputs are *)
(* enumerated exhaustively.                                                *)

SampleStride == 3

----------------------------------------------------------------------------
(* Colour types (pixelcolor::rgb_color, gray_color, binary_color)          *)

RgbTypes == {"Rgb555", "Bgr555", "Rgb565", "Bgr565", "Rgb888", "Bgr888"}

MAX_R(T) == IF T \in {"Rgb888", "Bgr888"} THEN 255 ELSE 31

MAX_G(T) == IF T \in {"Rgb888", "Bgr888"} THEN 255
            ELSE IF T \in {"Rgb565", "Bgr565"} THEN 63 ELSE 31

MAX_B(T) == IF T \in {"Rgb888", "Bgr888"} THEN 255 ELSE 31

MAX_Y == 255

ChannelMaxima == {31, 63, 255}

IsBgr(T) == T \in {"Bgr555", "Bgr565", "Bgr888"}

(* A colour value keeps its channels in the type's channel order. *)
RgbNew(T, r, g, b) ==
    [kind |-> "rgb", type |-> T,
     ch |-> IF IsBgr(T) THEN <<b, g, r>> ELSE <<r, g, b>>]

R(c) == IF IsBgr(c.type) THEN c.ch[3] ELSE c.ch[1]

G(c) == c.ch[2]

B(c) == IF IsBgr(c.type) THEN c.ch[1] ELSE c.ch[3]

Gray8New(y) == [kind |-> "gray", y |-> y]

BinaryOn == [kind |-> "bin", on |-> TRUE]

BinaryOff == [kind |-> "bin", on |-> FALSE]

map_color(color, value_off, value_on) ==
    IF color.on THEN value_on ELSE value_off

ColorNames == {"BLACK", "RED", "GREEN", "BLUE",
               "YELLOW", "MAGENTA", "CYAN", "WHITE"}

NamedColor(T, K) ==
    RgbNew(T,
           IF K \in {"RED", "YELLOW", "MAGENTA", "WHITE"} THEN MAX_R(T) ELSE 0,
           IF K \in {"GREEN", "YELLOW", "CYAN", "WHITE"} THEN MAX_G(T) ELSE 0,
           IF K \in {"BLUE", "MAGENTA", "CYAN", "WHITE"} THEN MAX_B(T) ELSE 0)

(* A bare channel value together with the maximum of its bit depth. *)
Channel(v, max) == [kind |-> "chan", v |-> v, max |-> max]

None == [kind |-> "none"]

----------------------------------------------------------------------------
(* conversion.rs *)

(* Variants of the code used to show that the properties depend on it. *)
convert_channel_truncating(value, from_max, to_max) ==
    U8(U16(U16(value * to_max)) \div from_max)

convert_channel_full_offset(value, from_max, to_max) ==
    U8(U16(U16(value * to_max) + from_max) \div from_max)

convert_channel_u8(value, from_max, to_max) ==
    U8(U8(U8(value * to_max) + from_max \div 2) \div from_max)

(* ((value as u16 * to_max as u16 + from_max as u16 / 2) / from_max as u16) as u8 *)
convert_channel(value, from_max, to_max) ==
    U8(U16(U16(value * to_max) + from_max \div 2) \div from_max)

(* The ($type, ($other_type, ...)) lists of the impl_rgb_conversion! calls. *)
ImplRgbConversion(T) == RgbTypes \ {T}

RgbFromRgb_swapped(T, other) ==
    RgbNew(T,
           convert_channel(other.ch[1], MAX_R(other.type), MAX_R(T)),
           convert_channel(other.ch[2], MAX_G(other.type), MAX_G(T)),
           convert_channel(other.ch[3], MAX_B(other.type), MAX_B(T)))

(* impl From<$other_type> for $type *)
RgbFromRgb(T, other) ==
    RgbNew(T,
           convert_channel(R(other), MAX_R(other.type), MAX_R(T)),
           convert_channel(G(other), MAX_G(other.type), MAX_G(T)),
           convert_channel(B(other), MAX_B(other.type), MAX_B(T)))

(* Into<Rgb888> as used by intensity: the reflexive conversion for Rgb888. *)
IntoRgb888(color) ==
    IF color.type = "Rgb888" THEN color ELSE RgbFromRgb("Rgb888", color)

intensity_rounded(color) ==
    LET c == IntoRgb888(color)
        sum == U16(U16(R(c) + G(c)) + B(c))
    IN  U8((sum + 1) \div 3)

intensity(color) ==
    LET c == IntoRgb888(color)
        sum == U16(U16(R(c) + G(c)) + B(c))
    IN  U8(sum \div 3)

RgbFromGray8_red_max(T, other) ==
    RgbNew(T,
           convert_channel(other.y, MAX_Y, MAX_R(T)),
           convert_channel(other.y, MAX_Y, MAX_R(T)),
           convert_channel(other.y, MAX_Y, MAX_R(T)))

(* impl From<Gray8> for $type *)
RgbFromGray8(T, other) ==
    RgbNew(T,
           convert_channel(other.y, MAX_Y, MAX_R(T)),
           convert_channel(other.y, MAX_Y, MAX_G(T)),
           convert_channel(other.y, MAX_Y, MAX_B(T)))

(* impl From<$type> for Gray8 *)
Gray8FromRgb(other) == Gray8New(intensity(other))

(* impl From<BinaryColor> for $type *)
RgbFromBinary(T, color) ==
    map_color(color, NamedColor(T, "BLACK"), NamedColor(T, "WHITE"))

BinaryFromRgb_strict(other) ==
    IF intensity(other) > 128 THEN BinaryOn ELSE BinaryOff

(* impl From<$type> for BinaryColor *)
BinaryFromRgb(other) ==
    IF intensity(other) >= 128 THEN BinaryOn ELSE BinaryOff

----------------------------------------------------------------------------
(* Inputs *)

ChannelSamples(max) ==
    {v \in 0..max : v % (SampleStride * ((max + 1) \div 32)) = 0} \cup {max}

ChannelInputs ==
    UNION {{Channel(v, m) : v \in 0..m} : m \in ChannelMaxima}

RgbInputs ==
    UNION {{RgbNew(T, r, g, b) : r \in ChannelSamples(MAX_R(T)),
                                  g \in ChannelSamples(MAX_G(T)),
                                  b \in ChannelSamples(MAX_B(T))} : T \in RgbTypes}

Gray8Inputs == {Gray8New(y) : y \in 0..MAX_Y}

BinaryInputs == {BinaryOff, BinaryOn}

Inputs == ChannelInputs \cup RgbInputs \cup Gray8Inputs \cup BinaryInputs

----------------------------------------------------------------------------
(* State machine *)

Init ==
    /\ pc = "input"
    /\ src \in Inputs
    /\ mid = None
    /\ out = None
    /\ op1 = "none"
    /\ op2 = "none"

(* The value the next conversion is applied to. *)
Cur == IF pc = "input" THEN src ELSE mid

(* Record the result of applying conversion `name` to Cur. *)
Push(val, name) ==
    /\ pc \in {"input", "once"}
    /\ IF pc = "input"
       THEN /\ mid' = val
            /\ op1' = name
            /\ pc' = "once"
            /\ UNCHANGED <<src, out, op2>>
       ELSE /\ out' = val
            /\ op2' = name
            /\ pc' = "twice"
            /\ UNCHANGED <<src, mid, op1>>

ConvertChannel ==
    /\ pc \in {"input", "once"}
    /\ Cur.kind = "chan"
    /\ \E to_max \in ChannelMaxima :
          Push(Channel(convert_channel(Cur.v, Cur.max, to_max), to_max),
               "convert_channel")

RgbToRgb ==
    /\ pc \in {"input", "once"}
    /\ Cur.kind = "rgb"
    /\ \E T \in RgbTypes :
          /\ Cur.type \in ImplRgbConversion(T)
          /\ Push(RgbFromRgb(T, Cur), "rgb_from_rgb")

Gray8ToRgb ==
    /\ pc \in {"input", "once"}
    /\ Cur.kind = "gray"
    /\ \E T \in RgbTypes : Push(RgbFromGray8(T, Cur), "rgb_from_gray8")

RgbToGray8 ==
    /\ pc \in {"input", "once"}
    /\ Cur.kind = "rgb"
    /\ Push(Gray8FromRgb(Cur), "gray8_from_rgb")

BinaryToRgb ==
    /\ pc \in {"input", "once"}
    /\ Cur.kind = "bin"
    /\ \E T \in RgbTypes : Push(RgbFromBinary(T, Cur), "rgb_from_binary")

RgbToBinary ==
    /\ pc \in {"input", "once"}
    /\ Cur.kind = "rgb"
    /\ Push(BinaryFromRgb(Cur), "binary_from_rgb")

Next ==
    \/ ConvertChannel
    \/ RgbToRgb
    \/ Gray8ToRgb
    \/ RgbToGray8
    \/ BinaryToRgb
    \/ RgbToBinary

Spec == Init /\ [][Next]_vars

----------------------------------------------------------------------------
(* Conversion steps recorded in a state: <<operation, input, output>>. *)

Steps ==
    (IF pc \in {"once", "twice"} THEN {<<op1, src, mid>>} ELSE {})
    \cup (IF pc = "twice" THEN {<<op2, mid, out>>} ELSE {})

StepsOf(name) == {s \in Steps : s[1] = name}

TypeOK ==
    /\ pc \in {"input", "once", "twice"}
    /\ \A s \in Steps : s[2].kind # "none" /\ s[3].kind # "none"

----------------------------------------------------------------------------
(* Properties of the channel rescaler *)

Supported(s) ==
    /\ s[2].max \in ChannelMaxima
    /\ s[3].max \in ChannelMaxima
    /\ s[2].v \in 0..s[2].max

(* C1: for supported maxima and 0 <= v <= from_max, the result r of        *)
(* convert_channel(v, from_max, to_max) is the nearest integer to          *)
(* v * to_max / from_max: 2 * |r * from_max - v * to_max| <= from_max, and *)
(* on an exact tie r is the larger candidate.                              *)
C1_NearestHalfUp ==
    \A s \in StepsOf("convert_channel") :
        Supported(s) =>
            LET v == s[2].v
                from_max == s[2].max
                to_max == s[3].max
                r == s[3].v
            IN  /\ r = (v * to_max + from_max \div 2) \div from_max
                /\ 2 * Abs(r * from_max - v * to_max) <= from_max
                /\ (2 * Abs(r * from_max - v * to_max) = from_max
                       => r * from_max > v * to_max)

(* A conversion whose exact quotient has fractional part above one half    *)
(* and was rounded up (3 of 31 to 255: 24.68 -> 25).                       *)
C1_Witness ==
    /\ pc = "once"
    /\ op1 = "convert_channel"
    /\ src.max = 31 /\ mid.max = 255
    /\ mid.v * src.max > src.v * mid.max

(* C2: converting up to a wider-or-equal depth and back reproduces the     *)
(* value: for channels with lo <= hi, and for every RGB colour converted   *)
(* to a type whose channels are all at least as wide and back again.       *)
WiderOrEqual(A, T) ==
    /\ MAX_R(A) <= MAX_R(T)
    /\ MAX_G(A) <= MAX_G(T)
    /\ MAX_B(A) <= MAX_B(T)

C2_RoundTripLossless ==
    pc = "twice" =>
        /\ (/\ op1 = "convert_channel" /\ op2 = "convert_channel"
            /\ src.max <= mid.max /\ out.max = src.max)
              => out = src
        /\ (/\ op1 = "rgb_from_rgb" /\ op2 = "rgb_from_rgb"
            /\ WiderOrEqual(src.type, mid.type) /\ out.type = src.type)
              => out = src

(* Rgb565 -> Rgb888 -> Rgb565 on a colour with three distinct non-zero     *)
(* channels none of which is an endpoint.                                  *)
C2_Witness ==
    /\ pc = "twice"
    /\ src.kind = "rgb" /\ src.type = "Rgb565"
    /\ mid.kind = "rgb" /\ mid.type = "Rgb888"
    /\ out.kind = "rgb" /\ out.type = "Rgb565"
    /\ R(src) \in 1..30 /\ G(src) \in 1..62 /\ B(src) \in 1..30
    /\ R(src) # B(src)
    /\ out = src

(* C3: every conversion between two RGB types maps each of the eight named *)
(* constants to the constant of the same name, and the rescaler maps 0 to  *)
(* 0 and from_max to to_max.                                               *)
C3_ConstantsPreserved ==
    /\ \A s \in StepsOf("rgb_from_rgb") :
          \A K \in ColorNames :
              s[2] = NamedColor(s[2].type, K) => s[3] = NamedColor(s[3].type, K)
    /\ \A s \in StepsOf("convert_channel") :
          /\ s[2].v = 0 => s[3].v = 0
          /\ s[2].v = s[2].max => s[3].v = s[3].max

(* Bgr565::YELLOW converted to Rgb888. *)
C3_Witness ==
    /\ pc = "once"
    /\ op1 = "rgb_from_rgb"
    /\ src = NamedColor("Bgr565", "YELLOW")
    /\ mid = NamedColor("Rgb888", "YELLOW")

(* C4: the 16-bit intermediate v * to_max + from_max / 2 never exceeds     *)
(* 65535, so the wrapped computation equals the unbounded one, and the     *)
(* result lies in [0, to_max].                                             *)
C4_NoOverflowInRange ==
    \A s \in StepsOf("convert_channel") :
        Supported(s) =>
            LET v == s[2].v
                from_max == s[2].max
                to_max == s[3].max
            IN  /\ v * to_max + from_max \div 2 <= 65535
                /\ s[3].v = (v * to_max + from_max \div 2) \div from_max
                /\ s[3].v \in 0..to_max

(* The largest product: 255 of 255 to 255. *)
C4_Witness ==
    /\ pc = "once"
    /\ op1 = "convert_channel"
    /\ src = Channel(255, 255)
    /\ mid = Channel(255, 255)

(* C5: convert_channel is monotonic non-decreasing in its value argument.  *)
C5_Monotonic ==
    \A s \in StepsOf("convert_channel") :
        Supported(s) =>
            \A v1 \in 0..s[2].v :
                convert_channel(v1, s[2].max, s[3].max) <= s[3].v

(* A narrowing conversion where the previous value gives the same result   *)
(* (255 and 254 of 255 both give 31) .                                     *)
C5_Witness ==
    /\ pc = "once"
    /\ op1 = "convert_channel"
    /\ src.max = 255 /\ mid.max = 31
    /\ src.v >= 2
    /\ convert_channel(src.v - 1, src.max, mid.max) = mid.v
    /\ convert_channel(src.v - 2, src.max, mid.max) < mid.v

----------------------------------------------------------------------------
(* Properties of the conversion graph *)

SameDepths(A, T) ==
    /\ MAX_R(A) = MAX_R(T)
    /\ MAX_G(A) = MAX_G(T)
    /\ MAX_B(A) = MAX_B(T)

(* C6: a conversion between two RGB types with the same channel depths and *)
(* opposite channel order keeps r, g and b; only the positions of red and  *)
(* blue in the channel order are exchanged.  The rescaler is the identity  *)
(* when from_max = to_max.                                                 *)
C6_PurePermutation ==
    /\ \A s \in StepsOf("rgb_from_rgb") :
          (SameDepths(s[2].type, s[3].type) /\ IsBgr(s[2].type) # IsBgr(s[3].type)) =>
              /\ R(s[3]) = R(s[2])
              /\ G(s[3]) = G(s[2])
              /\ B(s[3]) = B(s[2])
              /\ s[3].ch = <<s[2].ch[3], s[2].ch[2], s[2].ch[1]>>
    /\ \A s \in StepsOf("convert_channel") :
          (Supported(s) /\ s[2].max = s[3].max) => s[3].v = s[2].v

(* Rgb565 -> Bgr565 on a colour whose red and blue differ. *)
C6_Witness ==
    /\ pc = "once"
    /\ op1 = "rgb_from_rgb"
    /\ src.type = "Rgb565" /\ mid.type = "Bgr565"
    /\ R(src) # B(src)
    /\ G(src) \in 1..62
    /\ mid.ch[1] = src.ch[3]

(* The 8-bit channels of an RGB colour, by unbounded arithmetic. *)
Exact8(v, max) == (v * 255 + max \div 2) \div max

ExactSum(c) ==
    Exact8(R(c), MAX_R(c.type)) + Exact8(G(c), MAX_G(c.type))
        + Exact8(B(c), MAX_B(c.type))

(* C7: Gray8::from(t) has luma floor((r8 + g8 + b8) / 3), truncating; the  *)
(* sum fits in 16 bits and the result is in 0..255.  BLACK gives 0, WHITE  *)
(* 255, RED 85 and YELLOW 170, for every RGB type.                         *)
C7_GrayIsTruncatedAverage ==
    \A s \in StepsOf("gray8_from_rgb") :
        /\ ExactSum(s[2]) <= 65535
        /\ s[3].y = ExactSum(s[2]) \div 3
        /\ s[3].y \in 0..255
        /\ s[2] = NamedColor(s[2].type, "BLACK") => s[3] = Gray8New(0)
        /\ s[2] = NamedColor(s[2].type, "WHITE") => s[3] = Gray8New(255)
        /\ s[2] = NamedColor(s[2].type, "RED") => s[3] = Gray8New(85)
        /\ s[2] = NamedColor(s[2].type, "YELLOW") => s[3] = Gray8New(170)

(* A colour whose 8-bit channel sum leaves remainder 2 when divided by 3,  *)
(* where truncating and rounding differ.                                   *)
C7_Witness ==
    /\ pc = "once"
    /\ op1 = "gray8_from_rgb"
    /\ src.type = "Rgb565"
    /\ ExactSum(src) % 3 = 2
    /\ mid.y * 3 + 2 = ExactSum(src)

(* C8: BinaryColor::from(t) is On iff the intensity of t is >= 128; 128    *)
(* gives On and 127 gives Off.  BLACK and RED give Off, WHITE and YELLOW   *)
(* give On, for every RGB type.                                            *)
C8_BinaryThreshold ==
    \A s \in StepsOf("binary_from_rgb") :
        /\ s[3].on <=> (ExactSum(s[2]) \div 3 >= 128)
        /\ ExactSum(s[2]) \div 3 = 128 => s[3] = BinaryOn
        /\ ExactSum(s[2]) \div 3 = 127 => s[3] = BinaryOff
        /\ s[2] = NamedColor(s[2].type, "BLACK") => s[3] = BinaryOff
        /\ s[2] = NamedColor(s[2].type, "WHITE") => s[3] = BinaryOn
        /\ s[2] = NamedColor(s[2].type, "RED") => s[3] = BinaryOff
        /\ s[2] = NamedColor(s[2].type, "YELLOW") => s[3] = BinaryOn

(* Gray8(128) expanded to Rgb888 and thresholded: intensity exactly 128.   *)
C8_Witness ==
    /\ pc = "twice"
    /\ src = Gray8New(128)
    /\ mid = RgbNew("Rgb888", 128, 128, 128)
    /\ op2 = "binary_from_rgb"
    /\ out = BinaryOn

(* C9: T::from(Off) = T::BLACK and T::from(On) = T::WHITE;                 *)
(* T::from(Gray8::BLACK) = T::BLACK and T::from(Gray8::WHITE) = T::WHITE;  *)
(* for a gray value y each destination channel is y rescaled from 255 to   *)
(* that channel's own maximum.                                             *)
C9_Expansion ==
    /\ \A s \in StepsOf("rgb_from_binary") :
          /\ s[2] = BinaryOff => s[3] = NamedColor(s[3].type, "BLACK")
          /\ s[2] = BinaryOn => s[3] = NamedColor(s[3].type, "WHITE")
    /\ \A s \in StepsOf("rgb_from_gray8") :
          LET T == s[3].type
              y == s[2].y
          IN  /\ y = 0 => s[3] = NamedColor(T, "BLACK")
              /\ y = 255 => s[3] = NamedColor(T, "WHITE")
              /\ R(s[3]) = (y * MAX_R(T) + 127) \div 255
              /\ G(s[3]) = (y * MAX_G(T) + 127) \div 255
              /\ B(s[3]) = (y * MAX_B(T) + 127) \div 255

(* Gray8::WHITE expanded to Bgr565: green reaches 63 while red and blue    *)
(* reach 31.                                                               *)
C9_Witness ==
    /\ pc = "once"
    /\ op1 = "rgb_from_gray8"
    /\ src = Gray8New(255)
    /\ mid = NamedColor("Bgr565", "WHITE")
    /\ G(mid) # R(mid)

NarrowTypes == {"Rgb555", "Bgr555", "Rgb565", "Bgr565"}

(* C10: converting a colour of a non-8-bit RGB type to another non-8-bit   *)
(* RGB type through Rgb888 gives the same result as converting directly;   *)
(* for channels, rescaling from_max -> 255 -> to_max equals rescaling      *)
(* from_max -> to_max, for from_max and to_max in {31, 63}.                *)
C10_ComposeThrough888 ==
    pc = "twice" =>
        /\ (/\ op1 = "rgb_from_rgb" /\ op2 = "rgb_from_rgb"
            /\ src.type \in NarrowTypes /\ mid.type = "Rgb888"
            /\ out.type \in NarrowTypes)
              => out = IF out.type = src.type THEN src
                       ELSE RgbFromRgb(out.type, src)
        /\ (/\ op1 = "convert_channel" /\ op2 = "convert_channel"
            /\ src.max \in {31, 63} /\ mid.max = 255 /\ out.max \in {31, 63})
              => out.v = convert_channel(src.v, src.max, out.max)

(* Rgb555 -> Rgb888 -> Bgr565 with a green channel that is not an endpoint *)
(* and changes depth.                                                      *)
C10_Witness ==
    /\ pc = "twice"
    /\ op1 = "rgb_from_rgb" /\ op2 = "rgb_from_rgb"
    /\ src.type = "Rgb555" /\ mid.type = "Rgb888" /\ out.type = "Bgr565"
    /\ G(src) \in 1..30
    /\ G(out) # G(src)
    /\ out = RgbFromRgb("Bgr565", src)

====
